---- MODULE Spec2Model ----
(***************************************************************************)
(* Tienda_online: in-memory store (TiendaService), its models (Usuario,    *)
(* Producto, Pedido), the credential service (AuthService) and the FastAPI *)
(* handlers of main.py.                                                    *)
(***************************************************************************)
EXTENDS Integers, Sequences, FiniteSets, TLC

\* ------------------------------------------------------------------ bounds
MaxProductos == 2
MaxUsuarios == 1
MaxPedidos == 1
MaxItems == 2
MaxStock == 1
MaxCantidad == 1
MaxPrecio == 2
StockCap == 2
MaxCred == 2
MaxTokens == 1
NumHilos == 2

VARIABLES
    usuarios,    \* TiendaService.usuarios : UUID -> Usuario
    objs,        \* the Producto objects ever constructed, by object identity
    productos,   \* TiendaService.productos : producto.id -> Producto object
    pedidos,     \* TiendaService.pedidos : list of Pedido
    users,              \* AuthService.users : UUID -> Usuario
    users_by_username,  \* AuthService.users_by_username : username -> Usuario
    users_by_email,     \* AuthService.users_by_email : email -> Usuario
    now,         \* datetime.utcnow(), in minutes
    emitidos,    \* the tokens handed to callers, each with its issuance
    hilos,       \* the worker threads running realizar_pedido, with their locals
    resp         \* outcome of the last call: returned value or raised error

tiendaVars == <<usuarios, objs, productos, pedidos>>
authVars == <<users, users_by_username, users_by_email>>
vars == <<usuarios, objs, productos, pedidos, users, users_by_username,
          users_by_email, now, emitidos, hilos, resp>>

\* ------------------------------------------------------------- identities
None == "None"

\* uuid4(): a UUID object.  Usuario.id is one.
UUID(n) == [tipo |-> "UUID", n |-> n]
\* str(uuid4()): the textual form.  Producto.id and Pedido.id are strings.
Str(n) == [tipo |-> "str", n |-> n]
\* a path parameter that is no hexadecimal UUID text
Malformado == [tipo |-> "str", n |-> -1]
\* UUID(texto): parsing a path parameter into a UUID object; ValueError on
\* a text that is badly formed
UUID_type(s) ==
    IF s = Malformado
    THEN [exc |-> "ValueError", msg |-> "badly formed hexadecimal UUID string",
          val |-> s]
    ELSE [exc |-> None, msg |-> "", val |-> [tipo |-> "UUID", n |-> s.n]]


\* ------------------------------------------------------------- input sets
PrecioInputs == 1..MaxPrecio
StockInputs == 0..MaxStock
Cantidades == -1..MaxCantidad
TipoInputs == {"cliente", "Cliente", "admin", "administrador", "otro"}
Emails == {"a@x", "b@x"}
Direcciones == {None, "", "calle"}
\* ids a caller can name: every id issued so far and one never issued (0)
UsuarioIds == {UUID(n) : n \in 0..MaxUsuarios}
ProductoIds == {Str(n) : n \in 0..MaxProductos}

RECURSIVE SeqsDistintas(_, _)
\* the ordered mappings with distinct keys from S, of at most n entries
SeqsDistintas(S, n) ==
    IF n = 0 THEN {<<>>}
    ELSE LET prev == SeqsDistintas(S, n - 1) IN
         prev \cup {Append(s, <<k, c>>) :
                      s \in {t \in prev : Len(t) = n - 1},
                      k \in S, c \in Cantidades}

ClavesDe(items) == {items[i][1] : i \in 1..Len(items)}
ItemsInputs ==
    {s \in SeqsDistintas(ProductoIds, MaxItems) :
        Cardinality(ClavesDe(s)) = Len(s)}

\* ------------------------------------------------------------- responses
\* a call on a service: the value returned, or the exception raised
\* (antes: the call that came before a read of a total, kept for the record)
Ret(op, val) ==
    [op |-> op, exc |-> None, msg |-> "", val |-> val, status |-> 0, antes |-> "",
     str |-> ""]
\* a call that returns a str, or None
RetStr(op, str) == [Ret(op, 0) EXCEPT !.str = str]
Raise(op, exc, msg) ==
    [op |-> op, exc |-> exc, msg |-> msg, val |-> 0, status |-> 0, antes |-> "",
     str |-> ""]
Resultado(op, r, val) ==
    [op |-> op, exc |-> r.exc, msg |-> r.msg, val |-> val, status |-> 0,
     antes |-> "", str |-> ""]
\* a request on the API: the status code, the detail of an HTTPException
Http(op, status, detail, val) ==
    [op |-> op, exc |-> IF status >= 400 THEN "HTTPException" ELSE None,
     msg |-> detail, val |-> val, status |-> status, antes |-> "", str |-> ""]

MsgDireccion == "La direccion postal es obligatoria para clientes."
MsgTipo == "Tipo de usuario no valido. Usa 'cliente' o 'admin'."
MsgUsuario == "Usuario no encontrado."
MsgProducto == "Producto no encontrado."
MsgCliente == "Cliente no encontrado"
MsgNoExiste == "Producto no existe"
MsgStock == "No hay stock suficiente"

\* ---------------------------------------------------------------- Usuario
\* str.lower() on the strings the callers supply
lower(s) ==
    CASE s = "Cliente" -> "cliente"
      [] s = "ROPA" -> "ropa"
      [] OTHER -> s

Cliente(email, direccion, id) ==
    [clase |-> "Cliente", id |-> id, email |-> email, direccion |-> direccion]
Administrador(email, id) ==
    [clase |-> "Administrador", id |-> id, email |-> email, direccion |-> None]

is_admin(u) == u.clase = "Administrador"

\* --------------------------------------------------------------- Producto
Producto(precio, stock, id) ==
    [clase |-> "Producto", id |-> id, precio |-> precio, stock |-> stock,
     garantia_meses |-> None, talla |-> None, color |-> None]
ProductoElectronico(precio, stock, garantia_meses, id) ==
    [Producto(precio, stock, id) EXCEPT
        !.clase = "ProductoElectronico", !.garantia_meses = garantia_meses]
ProductoRopa(precio, stock, talla, color, id) ==
    [Producto(precio, stock, id) EXCEPT
        !.clase = "ProductoRopa", !.talla = talla, !.color = color]

hay_stock_laxo(p, cantidad) == p.stock + 1 >= cantidad

hay_stock(p, cantidad) == p.stock >= cantidad

actualizar_stock_signo(p, cantidad) == [p EXCEPT !.stock = @ - cantidad]

actualizar_stock(p, cantidad) == [p EXCEPT !.stock = @ + cantidad]

\* ----------------------------------------------------------------- Pedido
\* Pedido(cliente, productos): the client reference and the dict
\* {Producto object: cantidad}, kept in insertion order
Pedido(cliente, prods) == [cliente |-> cliente, productos |-> prods]

RECURSIVE SumaLineas(_, _, _)
SumaLineas(heap, prods, i) ==
    IF i > Len(prods) THEN 0
    ELSE heap[prods[i][1]].precio * prods[i][2] + SumaLineas(heap, prods, i + 1)

RECURSIVE SumaPrecios(_, _, _)
SumaPrecios(heap, prods, i) ==
    IF i > Len(prods) THEN 0
    ELSE heap[prods[i][1]].precio + SumaPrecios(heap, prods, i + 1)
calcular_total_sin_cantidad(heap, pedido) == SumaPrecios(heap, pedido.productos, 1)

\* sum(p.precio * c for p, c in self.productos.items()) over the live objects
calcular_total(heap, pedido) == SumaLineas(heap, pedido.productos, 1)

\* ---------------------------------------------------------- TiendaService
Poner(d, k, v) == [x \in DOMAIN d \cup {k} |-> IF x = k THEN v ELSE d[x]]
Quitar(d, k) == [x \in DOMAIN d \ {k} |-> d[x]]

\* the threads of the server's pool that run the synchronous handlers
Hilos == 1..NumHilos
Ocioso ==
    [pc |-> "idle", cliente_id |-> UUID(0), items |-> <<>>, i |-> 0,
     productos |-> <<>>, leido |-> 0]

Init ==
    /\ usuarios = <<>>
    /\ objs = <<>>
    /\ productos = <<>>
    /\ pedidos = <<>>
    /\ users = <<>>
    /\ users_by_username = <<>>
    /\ users_by_email = <<>>
    /\ now = 0
    /\ emitidos = {}
    /\ hilos = [t \in Hilos |-> Ocioso]
    /\ resp = Ret("init", 0)

\* the usuarios dict after the call, or the error raised
registrar_usuario_sin_direccion(us, tipo, email, direccion) ==
    LET tipo_lower == lower(tipo)
        id == UUID(Cardinality(DOMAIN us) + 1)
    IN  IF tipo_lower = "cliente"
        THEN [exc |-> None, msg |-> "", val |-> id.n,
              usuarios |-> Poner(us, id, Cliente(email, direccion, id))]
        ELSE IF tipo_lower \in {"admin", "administrador"}
             THEN [exc |-> None, msg |-> "", val |-> id.n,
                   usuarios |-> Poner(us, id, Administrador(email, id))]
             ELSE [exc |-> "ValueError", msg |-> MsgTipo, usuarios |-> us, val |-> 0]

registrar_usuario(us, tipo, email, direccion) ==
    LET tipo_lower == lower(tipo)
        id == UUID(Cardinality(DOMAIN us) + 1)
    IN  IF tipo_lower = "cliente"
        THEN IF direccion = None \/ direccion = ""
             THEN [exc |-> "ValueError", msg |-> MsgDireccion, usuarios |-> us, val |-> 0]
             ELSE [exc |-> None, msg |-> "", val |-> id.n,
                   usuarios |-> Poner(us, id, Cliente(email, direccion, id))]
        ELSE IF tipo_lower \in {"admin", "administrador"}
             THEN [exc |-> None, msg |-> "", val |-> id.n,
                   usuarios |-> Poner(us, id, Administrador(email, id))]
             ELSE [exc |-> "ValueError", msg |-> MsgTipo, usuarios |-> us, val |-> 0]

obtener_usuario(us, usuario_id) ==
    IF usuario_id \notin DOMAIN us
    THEN [exc |-> "ValueError", msg |-> MsgUsuario, val |-> 0]
    ELSE [exc |-> None, msg |-> "", val |-> usuario_id.n]

agregar_producto(cat, producto, o) == Poner(cat, producto.id, o)

obtener_producto(cat, producto_id) ==
    IF producto_id \notin DOMAIN cat
    THEN [exc |-> "ValueError", msg |-> MsgProducto, val |-> 0]
    ELSE [exc |-> None, msg |-> "", val |-> cat[producto_id]]

eliminar_producto_idempotente(cat, producto_id) ==
    [exc |-> None, msg |-> "", productos |-> Quitar(cat, producto_id)]

eliminar_producto(cat, producto_id) ==
    IF producto_id \notin DOMAIN cat
    THEN [exc |-> "ValueError", msg |-> MsgProducto, productos |-> cat]
    ELSE [exc |-> None, msg |-> "", productos |-> Quitar(cat, producto_id)]

\* line 120: the client test of realizar_pedido
es_cliente(us, cliente_id) ==
    cliente_id \in DOMAIN us /\ us[cliente_id].clase = "Cliente"

RECURSIVE Bucle(_, _, _, _, _)
\* for pid, cantidad in productos_cantidades.items(): look up, check, decrement
Bucle(cat, items, i, heap, acc) ==
    IF i > Len(items)
    THEN [exc |-> None, msg |-> "", objs |-> heap, productos |-> acc]
    ELSE LET pid == items[i][1]
             cantidad == items[i][2]
         IN  IF pid \notin DOMAIN cat
             THEN [exc |-> "ValueError", msg |-> MsgNoExiste,
                   objs |-> heap, productos |-> acc]
             ELSE LET o == cat[pid] IN
                  IF ~hay_stock(heap[o], cantidad)
                  THEN [exc |-> "ValueError", msg |-> MsgStock,
                        objs |-> heap, productos |-> acc]
                  ELSE Bucle(cat, items, i + 1,
                             [heap EXCEPT ![o] = actualizar_stock(@, -cantidad)],
                             Append(acc, <<o, cantidad>>))

\* the heap and the order list after the call, or the error raised
realizar_pedido(us, cat, heap, peds, cliente_id, productos_cantidades) ==
    IF ~es_cliente(us, cliente_id)
    THEN [exc |-> "ValueError", msg |-> MsgCliente, objs |-> heap, pedidos |-> peds]
    ELSE LET r == Bucle(cat, productos_cantidades, 1, heap, <<>>) IN
         IF r.exc # None
         THEN [exc |-> r.exc, msg |-> r.msg, objs |-> r.objs, pedidos |-> peds]
         ELSE [exc |-> None, msg |-> "", objs |-> r.objs,
               pedidos |-> Append(peds, Pedido(cliente_id, r.productos))]

pedidos_de_usuario(peds, cliente_id) ==
    SelectSeq(peds, LAMBDA p : p.cliente = cliente_id)

\* the stock values the model follows, and the length of the order list
EnRango(heap) == \A o \in 1..Len(heap) : heap[o].stock \in -StockCap..StockCap

\* ------------------------------------------- calls on the service, one each
RegistrarUsuario(tipo, email, direccion) ==
    /\ Cardinality(DOMAIN usuarios) < MaxUsuarios
    /\ \E r \in {registrar_usuario(usuarios, tipo, email, direccion)} :
       /\ usuarios' = r.usuarios
       /\ resp' = Resultado("registrar_usuario", r, r.val)
    /\ UNCHANGED <<objs, productos, pedidos, authVars, now, emitidos, hilos>>

\* Producto(nombre, precio, stock) followed by agregar_producto(producto)
AgregarProducto(precio, stock) ==
    /\ Len(objs) < MaxProductos
    /\ LET o == Len(objs) + 1
           producto == Producto(precio, stock, Str(o))
       IN  /\ objs' = Append(objs, producto)
           /\ productos' = agregar_producto(productos, producto, o)
           /\ resp' = Ret("agregar_producto", o)
    /\ UNCHANGED <<usuarios, pedidos, authVars, now, emitidos, hilos>>

EliminarProducto(producto_id) ==
    /\ LET r == eliminar_producto(productos, producto_id) IN
       /\ productos' = r.productos
       /\ resp' = Resultado("eliminar_producto", r, 0)
    /\ UNCHANGED <<usuarios, objs, pedidos, authVars, now, emitidos, hilos>>

ObtenerProducto(producto_id) ==
    /\ LET r == obtener_producto(productos, producto_id) IN
       resp' = Resultado("obtener_producto", r, r.val)
    /\ UNCHANGED <<tiendaVars, authVars, now, emitidos, hilos>>

RealizarPedido(cliente_id, productos_cantidades) ==
    /\ \E r \in {realizar_pedido(usuarios, productos, objs, pedidos,
                                  cliente_id, productos_cantidades)} :
           /\ EnRango(r.objs)
           /\ Len(r.pedidos) <= MaxPedidos
           /\ objs' = r.objs
           /\ pedidos' = r.pedidos
           /\ resp' = Resultado("realizar_pedido", r,
                                IF r.exc = None THEN Len(r.pedidos) ELSE 0)
    /\ UNCHANGED <<usuarios, productos, authVars, now, emitidos, hilos>>

\* producto.precio = precio: the attribute is public and mutable
CambiarPrecio(o, precio) ==
    /\ o \in 1..Len(objs)
    /\ objs[o].precio # precio
    /\ objs' = [objs EXCEPT ![o].precio = precio]
    /\ resp' = Ret("cambiar_precio", o)
    /\ UNCHANGED <<usuarios, productos, pedidos, authVars, now, emitidos, hilos>>

\* pedido.calcular_total()
CalcularTotal(i) ==
    /\ i \in 1..Len(pedidos)
    /\ resp' = [Ret("calcular_total", calcular_total(objs, pedidos[i]))
                   EXCEPT !.antes = resp.op]
    /\ UNCHANGED <<tiendaVars, authVars, now, emitidos, hilos>>

\* the orders of the store: users, products, orders placed on the service
PasoRegistrar ==
    \E t \in TipoInputs, d \in Direcciones : RegistrarUsuario(t, "a@x", d)
PasoAgregar == \E p \in PrecioInputs, s \in StockInputs : AgregarProducto(p, s)
PasoPedido == \E c \in UsuarioIds, items \in ItemsInputs : RealizarPedido(c, items)
PasoPrecio == \E o \in 1..MaxProductos, p \in PrecioInputs : CambiarPrecio(o, p)
PasoTotal == \E i \in 1..MaxPedidos : CalcularTotal(i)

Next ==
    \/ PasoRegistrar
    \/ PasoAgregar
    \/ PasoPedido
    \/ PasoPrecio
    \/ PasoTotal

Spec == Init /\ [][Next]_vars

\* ------------------------------------------------ properties of the orders
UltimoPedido(peds) == peds[Len(peds)]
\* the units of object o an order holds
Cant(pedido, o) ==
    IF \E j \in 1..Len(pedido.productos) : pedido.productos[j][1] = o
    THEN LET j == CHOOSE j \in 1..Len(pedido.productos) :
                      pedido.productos[j][1] = o
         IN  pedido.productos[j][2]
    ELSE 0
RECURSIVE ImportePorObjeto(_, _, _)
\* price times units, object by object over the heap
ImportePorObjeto(heap, pedido, o) ==
    IF o = 0 THEN 0
    ELSE heap[o].precio * Cant(pedido, o) + ImportePorObjeto(heap, pedido, o - 1)
TodosEnCatalogo(items) == \A j \in 1..Len(items) : items[j][1] \in DOMAIN productos
Excede(items) ==
    \E j \in 1..Len(items) :
        /\ items[j][1] \in DOMAIN productos
        /\ items[j][2] > objs[productos[items[j][1]]].stock

\* C1: an order in which some line asks for more than the product's stock
\* fails with "No hay stock suficiente", leaves the stock of every product as
\* it was before the call and records no order.
C1_TodoONada ==
    [][resp'.op = "realizar_pedido" =>
        \A c \in UsuarioIds, items \in ItemsInputs :
            (/\ es_cliente(usuarios, c)
             /\ TodosEnCatalogo(items)
             /\ Excede(items)
             /\ RealizarPedido(c, items))
            => (/\ resp'.exc = "ValueError"
                /\ resp'.msg = MsgStock
                /\ objs' = objs
                /\ pedidos' = pedidos)]_vars

\* C2: the stock of every product is at least 0 in every state the calls on
\* the service reach (products enter the catalog with stock >= 0).
C2_StockNoNegativo == \A o \in 1..Len(objs) : objs[o].stock >= 0

\* an order went through and took the last unit of a product
C2_Witness ==
    /\ resp.op = "realizar_pedido"
    /\ resp.exc = None
    /\ \E o \in 1..Len(objs) :
           objs[o].stock = 0 /\ Cant(UltimoPedido(pedidos), o) > 0

\* C3: an order naming a product id that is not in the catalog fails with
\* "Producto no existe", records no order and leaves every stock as it was,
\* wherever the missing id stands among the items.
C3_ProductoAusente ==
    [][resp'.op = "realizar_pedido" =>
        \A c \in UsuarioIds, items \in ItemsInputs :
            (/\ es_cliente(usuarios, c)
             /\ ~TodosEnCatalogo(items)
             /\ RealizarPedido(c, items))
            => (/\ resp'.exc = "ValueError"
                /\ resp'.msg = MsgNoExiste
                /\ objs' = objs
                /\ pedidos' = pedidos)]_vars

ItemsDeUno == {items \in ItemsInputs : Len(items) = 1}

\* C4: an order that goes through takes from each product's stock exactly
\* the units asked for and touches the stock of no other product, appends one
\* order that holds the client and the units asked for each product, and the
\* total of that order is the sum of price times units; an order of one line
\* that fails for lack of stock changes nothing.
C4_PedidoCorrecto ==
    [][resp'.op = "realizar_pedido" =>
        /\ resp'.exc = None =>
            LET ped == UltimoPedido(pedidos') IN
            /\ pedidos' = Append(pedidos, ped)
            /\ Len(objs') = Len(objs)
            /\ \A o \in 1..Len(objs) :
                   objs'[o] = [objs[o] EXCEPT !.stock = @ - Cant(ped, o)]
            /\ calcular_total(objs', ped) = ImportePorObjeto(objs', ped, Len(objs'))
            /\ \A c \in UsuarioIds, items \in ItemsInputs :
                   RealizarPedido(c, items) =>
                       /\ ped.cliente = c
                       /\ usuarios[c].clase = "Cliente"
                       /\ Len(ped.productos) = Len(items)
                       /\ \A j \in 1..Len(items) :
                              ped.productos[j] = <<productos[items[j][1]], items[j][2]>>
        /\ resp'.msg = MsgStock =>
            \A c \in UsuarioIds, items \in ItemsDeUno :
                RealizarPedido(c, items) => objs' = objs /\ pedidos' = pedidos]_vars

\* an order of two lines went through: one unit at price 1, one at price 2
C4_Witness ==
    /\ resp.op = "realizar_pedido"
    /\ resp.exc = None
    /\ Len(UltimoPedido(pedidos).productos) = 2
    /\ \A j \in 1..2 : UltimoPedido(pedidos).productos[j][2] = 1
    /\ calcular_total(objs, UltimoPedido(pedidos)) = 3
    /\ \A o \in 1..Len(objs) : objs[o].stock = 0

\* C6: an order for a client id that is not registered fails as not found,
\* an order for the id of an Administrador fails with an error of another
\* kind, and neither changes a stock or records an order.
C6_ErroresDistintos ==
    [][resp'.op = "realizar_pedido" =>
        \A c \in UsuarioIds :
            /\ (c \notin DOMAIN usuarios /\ RealizarPedido(c, <<>>))
               => (/\ resp'.exc = "ValueError"
                   /\ resp'.msg = MsgCliente
                   /\ objs' = objs /\ pedidos' = pedidos)
            /\ (c \in DOMAIN usuarios /\ is_admin(usuarios[c]) /\ RealizarPedido(c, <<>>))
               => (/\ resp'.exc = "ValueError"
                   /\ resp'.msg # MsgCliente
                   /\ objs' = objs /\ pedidos' = pedidos)]_vars

\* C7: every line of every stored order has a quantity above 0.
C7_CantidadesPositivas ==
    \A i \in 1..Len(pedidos) :
        \A j \in 1..Len(pedidos[i].productos) : pedidos[i].productos[j][2] > 0

\* C9: a total read from an order is the sum, over the products it holds, of
\* the price the product has at the time of the read times the units the
\* order recorded, and no call changes the lines of a stored order.
C9_TotalConPrecioActual ==
    [][/\ resp'.op = "calcular_total" =>
            \A i \in 1..Len(pedidos) :
                CalcularTotal(i) =>
                    resp'.val = ImportePorObjeto(objs, pedidos[i], Len(objs))
       /\ \A i \in 1..Len(pedidos) :
              /\ i <= Len(pedidos')
              /\ pedidos'[i].productos = pedidos[i].productos]_vars

\* the total of an order of one unit, read right after the price of its
\* product went from 1 to 2
C9_Witness ==
    /\ resp.op = "calcular_total"
    /\ resp.antes = "cambiar_precio"
    /\ Len(objs) = 1
    /\ objs[1].precio = 2
    /\ Len(pedidos) = 1
    /\ pedidos[1].productos = <<<<1, 1>>>>
    /\ resp.val = 2

RECURSIVE Vendidas(_, _, _)
\* the units of object o recorded in the first i stored orders
Vendidas(peds, o, i) ==
    IF i = 0 THEN 0 ELSE Cant(peds[i], o) + Vendidas(peds, o, i - 1)

\* C18: for every product, the stock it was inserted with equals its current
\* stock plus the units recorded for it across all stored orders.  A product
\* enters with no order naming it, so this is: every call of realizar_pedido,
\* failing or not, leaves stock plus recorded units of every product as it was.
C18_Conservacion ==
    [][resp'.op = "realizar_pedido" =>
          \A o \in 1..Len(objs) :
              objs'[o].stock + Vendidas(pedidos', o, Len(pedidos'))
                  = objs[o].stock + Vendidas(pedidos, o, Len(pedidos))]_vars

\* ------------------------------------------------------------ AuthService
SECRET_KEY == "SECRET_KEY"
ACCESS_TOKEN_EXPIRE_MINUTES == 30

Usernames == {"ana", "bob"}
Passwords == {"p", "q"}
Salts == {1, 2}

MsgUsername == "El nombre de usuario ya esta registrado"
MsgEmail == "El email ya esta registrado"

Usuario(nombre, email, username, hashed_password, id) ==
    [clase |-> "Usuario", id |-> id, nombre |-> nombre, email |-> email,
     username |-> username, hashed_password |-> hashed_password,
     is_active |-> TRUE]

\* bcrypt.hashpw(password, salt): the salt travels inside the hash
hashpw(password, salt) == [salt |-> salt, h |-> <<password, salt>>]
\* bcrypt.checkpw: hash the candidate with the salt of the stored hash
checkpw(password, hashed) == hashpw(password, hashed.salt) = hashed

\* the salt is bcrypt.gensalt(), drawn by the caller of this operator
hash_password(password, salt) == hashpw(password, salt)
verify_password(plain_password, hashed_password) ==
    checkpw(plain_password, hashed_password)

create_user_sin_email(us, byU, byE, username, email, password, salt) ==
    IF username \in DOMAIN byU
    THEN [exc |-> "ValueError", msg |-> MsgUsername, val |-> 0,
          users |-> us, users_by_username |-> byU, users_by_email |-> byE]
    ELSE LET id == UUID(Cardinality(DOMAIN us) + 1)
             user == Usuario(username, email, username,
                             hash_password(password, salt), id)
         IN  [exc |-> None, msg |-> "", val |-> id.n,
              users |-> Poner(us, id, user),
              users_by_username |-> Poner(byU, username, id),
              users_by_email |-> Poner(byE, email, id)]

\* the three indexes after the call, or the error raised
create_user(us, byU, byE, username, email, password, salt) ==
    IF username \in DOMAIN byU
    THEN [exc |-> "ValueError", msg |-> MsgUsername, val |-> 0,
          users |-> us, users_by_username |-> byU, users_by_email |-> byE]
    ELSE IF email \in DOMAIN byE
    THEN [exc |-> "ValueError", msg |-> MsgEmail, val |-> 0,
          users |-> us, users_by_username |-> byU, users_by_email |-> byE]
    ELSE LET id == UUID(Cardinality(DOMAIN us) + 1)
             user == Usuario(username, email, username,
                             hash_password(password, salt), id)
         IN  [exc |-> None, msg |-> "", val |-> id.n,
              users |-> Poner(us, id, user),
              users_by_username |-> Poner(byU, username, id),
              users_by_email |-> Poner(byE, email, id)]

\* a user is returned by the number of its id; NoUser is Python's None
NoUser == 0

authenticate_user_sin_password(us, byU, username, password) ==
    IF username \notin DOMAIN byU THEN NoUser
    ELSE byU[username].n

authenticate_user(us, byU, username, password) ==
    IF username \notin DOMAIN byU THEN NoUser
    ELSE IF ~verify_password(password, us[byU[username]].hashed_password) THEN NoUser
    ELSE byU[username].n

get_user_by_username(byU, username) ==
    IF username \in DOMAIN byU THEN byU[username].n ELSE NoUser

\* expires_delta: a timedelta in minutes; SinDelta is the argument left out
SinDelta == -1

\* HS256: the signature is a keyed digest of the claims it covers
firmar(key, sub, exp) == [key |-> key, sub |-> sub, exp |-> exp]

\* jwt.encode of {"sub": ..., "exp": ...} under SECRET_KEY; t is utcnow().
\* "if expires_delta:" is the truth value of a timedelta: false for None and
\* for a zero duration
create_access_token(sub, expires_delta, t) ==
    LET expire == IF expires_delta # SinDelta /\ expires_delta # 0
                  THEN t + expires_delta
                  ELSE t + ACCESS_TOKEN_EXPIRE_MINUTES
    IN  [sub |-> sub, exp |-> expire, firma |-> firmar(SECRET_KEY, sub, expire)]

\* jwt.decode: signature, then expiry (exp < now), then the subject; every
\* JWTError is caught and answered with None
verify_token(token, t) ==
    IF token.firma # firmar(SECRET_KEY, token.sub, token.exp) THEN None
    ELSE IF token.exp < t THEN None
    ELSE token.sub

\* one entry of emitidos: the token, the expires_delta asked for, utcnow()
Emision(token, expires_delta, t) ==
    [token |-> token, expires_delta |-> expires_delta, t |-> t]
Tokens == {e.token : e \in emitidos}

CreateUser(username, email, password, salt) ==
    /\ \E r \in {create_user(users, users_by_username, users_by_email,
                             username, email, password, salt)} :
           /\ Cardinality(DOMAIN r.users) <= MaxCred
           /\ users' = r.users
           /\ users_by_username' = r.users_by_username
           /\ users_by_email' = r.users_by_email
           /\ resp' = Resultado("create_user", r, r.val)
    /\ UNCHANGED <<tiendaVars, now, emitidos, hilos>>

AuthenticateUser(username, password) ==
    /\ \E r \in {authenticate_user(users, users_by_username, username, password)} :
           resp' = Ret("authenticate_user", r)
    /\ UNCHANGED <<tiendaVars, authVars, now, emitidos, hilos>>

PasoCreateUser ==
    \E u \in Usernames, e \in Emails, p \in Passwords, s \in Salts :
        CreateUser(u, e, p, s)
PasoAuthenticate == \E u \in Usernames, p \in Passwords : AuthenticateUser(u, p)

NextAuth ==
    \/ PasoCreateUser
    \/ PasoAuthenticate

SpecAuth == Init /\ [][NextAuth]_vars

\* C10: create_user raises whenever the username is already registered or
\* the email is already registered and then leaves users, users_by_username
\* and users_by_email as they were; no two users share a username or an email.
C10_SinDuplicados ==
    /\ [](\A a \in DOMAIN users, b \in DOMAIN users :
             a # b => /\ users[a].username # users[b].username
                      /\ users[a].email # users[b].email)
    /\ [][resp'.op = "create_user" =>
            \A u \in Usernames, e \in Emails, p \in Passwords, s \in Salts :
                (/\ \/ \E a \in DOMAIN users : users[a].username = u
                    \/ \E a \in DOMAIN users : users[a].email = e
                 /\ CreateUser(u, e, p, s))
                => (/\ resp'.exc = "ValueError"
                    /\ resp'.msg \in {MsgUsername, MsgEmail}
                    /\ authVars' = authVars)]_vars

\* a registration with a fresh username and a taken email was turned down
C10_Witness ==
    /\ resp.op = "create_user"
    /\ resp.msg = MsgEmail
    /\ Cardinality(DOMAIN users) = 1
    /\ Cardinality(DOMAIN users_by_email) = 1

\* ------------------------------------------------- tokens and the clock
\* minutes by which the clock moves in one step, and the last instant reached
TickMinutos == 15
MaxNow == 45

\* the expires_delta a caller passes: left out, zero, a quarter, half an hour
DeltaInputs == {SinDelta, 0, 15, 30}

\* a token changed after it was signed: another subject, a later expiry
\* (both under the old signature), or a signature made with another key
Alterados(tok) ==
    {[tok EXCEPT !.sub = u] : u \in Usernames \ {tok.sub}}
    \cup {[tok EXCEPT !.exp = @ + ACCESS_TOKEN_EXPIRE_MINUTES]}
    \cup {[tok EXCEPT !.firma.key = "otra"]}

\* datetime.utcnow() moves on between two calls
Tick ==
    /\ now + TickMinutos <= MaxNow
    /\ now' = now + TickMinutos
    /\ UNCHANGED <<tiendaVars, authVars, emitidos, hilos, resp>>

CreateAccessToken(sub, expires_delta) ==
    /\ \E tok \in {create_access_token(sub, expires_delta, now)} :
           /\ Cardinality(emitidos \cup {Emision(tok, expires_delta, now)})
                  <= MaxTokens
           /\ emitidos' = emitidos \cup {Emision(tok, expires_delta, now)}
           /\ resp' = Ret("create_access_token", tok.exp)
    /\ UNCHANGED <<tiendaVars, authVars, now, hilos>>

VerifyToken(token) ==
    /\ resp' = RetStr("verify_token", verify_token(token, now))
    /\ UNCHANGED <<tiendaVars, authVars, now, emitidos, hilos>>

TokenCreateUser == CreateUser("ana", "a@x", "p", 1)
PasoCreateToken ==
    \E u \in Usernames, d \in DeltaInputs : CreateAccessToken(u, d)
PasoVerifyToken ==
    \E tok \in Tokens \cup UNION {Alterados(t) : t \in Tokens} : VerifyToken(tok)

NextToken ==
    \/ TokenCreateUser
    \/ PasoCreateToken
    \/ PasoVerifyToken
    \/ Tick

SpecToken == Init /\ [][NextToken]_vars

\* the time to live a caller asked for: the default when none was passed
TtlPedido(e) ==
    IF e.expires_delta = SinDelta THEN ACCESS_TOKEN_EXPIRE_MINUTES
    ELSE e.expires_delta

\* C11: a token issued for a username with a ttl verifies as that username at
\* every instant before issue time + ttl and is turned down at every instant
\* after issue time + ttl; a token whose content or signature was altered is
\* turned down; verify_token never raises and neither reads nor changes the
\* stored users.
C11_TokenTemporal ==
    [][resp'.op = "verify_token" =>
          /\ resp'.exc = None
          /\ authVars' = authVars
          /\ \A e \in emitidos :
                 /\ (now < e.t + TtlPedido(e) /\ VerifyToken(e.token))
                    => resp'.str = e.token.sub
                 /\ (now > e.t + TtlPedido(e) /\ VerifyToken(e.token))
                    => resp'.str = None
                 /\ \A a \in Alterados(e.token) :
                        VerifyToken(a) => resp'.str = None]_vars

\* C12: create_access_token sets exp = utcnow() + expires_delta for every
\* expires_delta passed, a zero duration included, and uses the 30 minutes
\* only when none is passed.
C12_ExpiraSegunTtl ==
    [][resp'.op = "create_access_token" =>
          \A u \in Usernames, d \in DeltaInputs :
              CreateAccessToken(u, d)
              => resp'.val = now + (IF d = SinDelta
                                    THEN ACCESS_TOKEN_EXPIRE_MINUTES ELSE d)]_vars

\* ------------------------------------------------------- main.py handlers
MsgCredenciales == "No se pudieron validar las credenciales"
MsgLogin == "Usuario o contrasena incorrectos"
MsgGarantia == "meses_garantia es obligatorio para productos electronicos"
MsgRopa == "talla y color son obligatorios para productos de ropa"
MsgTipoProducto == "Tipo de producto no valido. Usa 'generico', 'electronico' o 'ropa'."
MsgNoCliente == "El usuario no es un cliente"

\* a request without an Authorization header: OAuth2PasswordBearer answers 401
SinToken == [sub |-> None, exp |-> 0, firma |-> firmar("ausente", None, 0)]
\* a token signed with another key
Falsificado(tok) == [tok EXCEPT !.firma.key = "otra"]
TokenInputs == Tokens \cup {Falsificado(t) : t \in Tokens} \cup {SinToken}

get_current_user_sin_verificar(byU, token, t) ==
    IF token = SinToken THEN NoUser
    ELSE get_user_by_username(byU, token.sub)

\* the number of the current user, or NoUser when the handler answers 401
get_current_user(byU, token, t) ==
    IF token = SinToken THEN NoUser
    ELSE LET username == verify_token(token, t) IN
         IF username = None THEN NoUser
         ELSE get_user_by_username(byU, username)

\* POST /auth/register
register_user(username, email, password, salt) ==
    /\ \E r \in {create_user(users, users_by_username, users_by_email,
                             username, email, password, salt)} :
           /\ Cardinality(DOMAIN r.users) <= MaxCred
           /\ users' = r.users
           /\ users_by_username' = r.users_by_username
           /\ users_by_email' = r.users_by_email
           /\ resp' = IF r.exc = "ValueError"
                      THEN Http("POST /auth/register", 400, r.msg, 0)
                      ELSE Http("POST /auth/register", 201, "", r.val)
    /\ UNCHANGED <<tiendaVars, now, emitidos, hilos>>

\* POST /auth/login
login(username, password) ==
    /\ \E user \in {authenticate_user(users, users_by_username, username, password)} :
           IF user = NoUser
           THEN /\ resp' = Http("POST /auth/login", 401, MsgLogin, 0)
                /\ UNCHANGED emitidos
           ELSE LET access_token ==
                        create_access_token(users[UUID(user)].username,
                                            ACCESS_TOKEN_EXPIRE_MINUTES, now)
                    emision ==
                        Emision(access_token, ACCESS_TOKEN_EXPIRE_MINUTES, now)
                IN  /\ Cardinality(emitidos \cup {emision}) <= MaxTokens
                    /\ emitidos' = emitidos \cup {emision}
                    /\ resp' = Http("POST /auth/login", 200, "", user)
    /\ UNCHANGED <<tiendaVars, authVars, now, hilos>>

\* POST /usuarios
crear_usuario(tipo, email, direccion_postal) ==
    /\ Cardinality(DOMAIN usuarios) < MaxUsuarios
    /\ \E r \in {registrar_usuario(usuarios, tipo, email, direccion_postal)} :
           /\ usuarios' = r.usuarios
           /\ resp' = IF r.exc = "ValueError"
                      THEN Http("POST /usuarios", 400, r.msg, 0)
                      ELSE Http("POST /usuarios", 201, "", r.val)
    /\ UNCHANGED <<objs, productos, pedidos, authVars, now, emitidos, hilos>>

\* the product the handler builds, or the HTTPException it raises
construir_producto(datos, id) ==
    LET tipo_lower == lower(datos.tipo) IN
    IF tipo_lower = "electronico"
    THEN IF datos.meses_garantia = None
         THEN [status |-> 400, msg |-> MsgGarantia, producto |-> None]
         ELSE [status |-> 201, msg |-> "",
               producto |-> ProductoElectronico(datos.precio, datos.stock,
                                                datos.meses_garantia, id)]
    ELSE IF tipo_lower = "ropa"
    THEN IF datos.talla = None \/ datos.color = None
         THEN [status |-> 400, msg |-> MsgRopa, producto |-> None]
         ELSE [status |-> 201, msg |-> "",
               producto |-> ProductoRopa(datos.precio, datos.stock,
                                         datos.talla, datos.color, id)]
    ELSE IF tipo_lower = "generico"
    THEN [status |-> 201, msg |-> "",
          producto |-> Producto(datos.precio, datos.stock, id)]
    ELSE [status |-> 400, msg |-> MsgTipoProducto, producto |-> None]

\* POST /productos
crear_producto(token, datos) ==
    /\ Len(objs) < MaxProductos
    /\ IF get_current_user(users_by_username, token, now) = NoUser
       THEN /\ resp' = Http("POST /productos", 401, MsgCredenciales, 0)
            /\ UNCHANGED <<objs, productos>>
       ELSE \E r \in {construir_producto(datos, Str(Len(objs) + 1))} :
            IF r.status = 400
            THEN /\ resp' = Http("POST /productos", 400, r.msg, 0)
                 /\ UNCHANGED <<objs, productos>>
            ELSE /\ objs' = Append(objs, r.producto)
                 /\ productos' = agregar_producto(productos, r.producto, Len(objs) + 1)
                 /\ resp' = Http("POST /productos", 201, "", r.producto.id.n)
    /\ UNCHANGED <<usuarios, pedidos, authVars, now, emitidos, hilos>>

\* GET /productos/{producto_id}
http_obtener_producto(producto_id) ==
    /\ \E u \in {UUID_type(producto_id)} :
           IF u.exc = "ValueError"
           THEN resp' = Http("GET /productos/{id}", 404, u.msg, 0)
           ELSE \E r \in {obtener_producto(productos, u.val)} :
                IF r.exc = "ValueError"
                THEN resp' = Http("GET /productos/{id}", 404, r.msg, 0)
                ELSE resp' = Http("GET /productos/{id}", 200, "", r.val)
    /\ UNCHANGED <<tiendaVars, authVars, now, emitidos, hilos>>

\* DELETE /productos/{producto_id}
http_eliminar_producto(producto_id) ==
    /\ \E u \in {UUID_type(producto_id)} :
           IF u.exc = "ValueError"
           THEN /\ resp' = Http("DELETE /productos/{id}", 404, u.msg, 0)
                /\ UNCHANGED productos
           ELSE \E r \in {eliminar_producto(productos, u.val)} :
                /\ productos' = r.productos
                /\ resp' = IF r.exc = "ValueError"
                           THEN Http("DELETE /productos/{id}", 404, r.msg, 0)
                           ELSE Http("DELETE /productos/{id}", 204, "", 0)
    /\ UNCHANGED <<usuarios, objs, pedidos, authVars, now, emitidos, hilos>>

\* productos_cantidades[item.id_producto] = item.cantidad on an ordered dict
PonerItem(d, k, v) ==
    IF \E j \in 1..Len(d) : d[j][1] = k
    THEN [j \in 1..Len(d) |-> IF d[j][1] = k THEN <<k, v>> ELSE d[j]]
    ELSE Append(d, <<k, v>>)

RECURSIVE armar_cantidades(_, _, _, _)
\* lines 477-486: resolve every item, building the dict handed to the service
armar_cantidades(cat, items, i, acc) ==
    IF i > Len(items) THEN [exc |-> None, msg |-> "", val |-> acc]
    ELSE IF obtener_producto(cat, items[i][1]).exc = "ValueError"
         THEN [exc |-> "ValueError", msg |-> MsgProducto, val |-> acc]
         ELSE armar_cantidades(cat, items, i + 1,
                               PonerItem(acc, items[i][1], items[i][2]))

\* POST /pedidos
crear_pedido(token, id_cliente, items) ==
    /\ IF get_current_user(users_by_username, token, now) = NoUser
       THEN /\ resp' = Http("POST /pedidos", 401, MsgCredenciales, 0)
            /\ UNCHANGED <<objs, pedidos>>
       ELSE IF obtener_usuario(usuarios, id_cliente).exc = "ValueError"
       THEN /\ resp' = Http("POST /pedidos", 404, MsgCliente, 0)
            /\ UNCHANGED <<objs, pedidos>>
       ELSE IF usuarios[id_cliente].clase # "Cliente"
       THEN /\ resp' = Http("POST /pedidos", 400, MsgNoCliente, 0)
            /\ UNCHANGED <<objs, pedidos>>
       ELSE \E d \in {armar_cantidades(productos, items, 1, <<>>)} :
            IF d.exc = "ValueError"
            THEN /\ resp' = Http("POST /pedidos", 404, d.msg, 0)
                 /\ UNCHANGED <<objs, pedidos>>
            ELSE \E r \in {realizar_pedido(usuarios, productos, objs, pedidos,
                                           id_cliente, d.val)} :
                 /\ EnRango(r.objs)
                 /\ Len(r.pedidos) <= MaxPedidos
                 /\ objs' = r.objs
                 /\ pedidos' = r.pedidos
                 /\ resp' = IF r.exc = "ValueError"
                            THEN Http("POST /pedidos", 400, r.msg, 0)
                            ELSE Http("POST /pedidos", 201, "",
                                      calcular_total(r.objs, r.pedidos[Len(r.pedidos)]))
    /\ UNCHANGED <<usuarios, productos, authVars, now, emitidos, hilos>>

\* the process is started again: main.py builds empty services, SECRET_KEY is
\* read back from .env, the callers keep their tokens
Reiniciar ==
    /\ usuarios' = <<>>
    /\ objs' = <<>>
    /\ productos' = <<>>
    /\ pedidos' = <<>>
    /\ users' = <<>>
    /\ users_by_username' = <<>>
    /\ users_by_email' = <<>>
    /\ resp' = Ret("init", 0)
    /\ UNCHANGED <<now, emitidos, hilos>>

\* the requests the model sends
PathIds == {Str(n) : n \in 0..MaxProductos} \cup {Malformado}
BodyProductoIds == {UUID(n) : n \in 0..MaxProductos}
HttpItems ==
    {<<>>} \cup {<<<<k, c>>>> : k \in BodyProductoIds, c \in Cantidades}
    \cup {<<<<k1, 1>>, <<k2, 1>>>> : k1 \in BodyProductoIds, k2 \in BodyProductoIds}
ProductoCreate ==
    [tipo : {"generico", "electronico", "ROPA", "otro"},
     precio : {1}, stock : StockInputs,
     meses_garantia : {None, "12"}, talla : {None, "M"}, color : {None, "rojo"}]

HttpRegister == register_user("ana", "a@x", "p", 1)
HttpLogin == \E u \in Usernames, p \in Passwords : login(u, p)
HttpCrearUsuario ==
    \E t \in TipoInputs, d \in Direcciones : crear_usuario(t, "a@x", d)
HttpCrearProducto ==
    \E tok \in TokenInputs, datos \in ProductoCreate : crear_producto(tok, datos)
HttpObtenerProducto == \E id \in PathIds : http_obtener_producto(id)
HttpEliminarProducto == \E id \in PathIds : http_eliminar_producto(id)
HttpCrearPedido ==
    \E tok \in TokenInputs, c \in UsuarioIds, items \in HttpItems :
        crear_pedido(tok, c, items)

NextHttp ==
    \/ HttpRegister
    \/ HttpLogin
    \/ HttpCrearUsuario
    \/ HttpCrearProducto
    \/ HttpObtenerProducto
    \/ HttpEliminarProducto
    \/ HttpCrearPedido

SpecHttp == Init /\ [][NextHttp]_vars

\* C8: the id under which a product is in the catalog resolves the product:
\* GET /productos/{id} answers 200 and DELETE /productos/{id} answers 204
\* for it, and a POST /pedidos naming only such ids is not answered 404.
C8_IdResoluble ==
    [][/\ \A id \in PathIds :
              /\ (id \in DOMAIN productos /\ http_obtener_producto(id))
                 => resp'.status = 200
              /\ (id \in DOMAIN productos /\ http_eliminar_producto(id))
                 => resp'.status = 204
       /\ resp'.op = "POST /pedidos" =>
              \A tok \in TokenInputs, c \in UsuarioIds, items \in HttpItems :
                  (/\ \A j \in 1..Len(items) :
                         \E k \in DOMAIN productos : k.n = items[j][1].n
                   /\ crear_pedido(tok, c, items))
                  => resp'.msg # MsgProducto]_vars

\* ----------------------------------------------- registration and login
LoginRegister ==
    \E u \in Usernames, e \in Emails, p \in Passwords, s \in Salts :
        register_user(u, e, p, s)

NextLogin ==
    \/ LoginRegister
    \/ HttpLogin
    \/ Tick

SpecLogin == Init /\ [][NextLogin]_vars

\* the password a stored user registered with is the one its hash was made of
Registrado(username, password) ==
    /\ username \in DOMAIN users_by_username
    /\ users[users_by_username[username]].hashed_password.h[1] = password

\* C13: authenticate_user returns the user exactly when the username is
\* registered and the password is the one its hash was made of; POST
\* /auth/login then answers 200, and for an unknown username and for a wrong
\* password alike it answers the same 401 with the same detail, issuing no
\* token.
C13_FalloIndistinguible ==
    /\ [](\A u \in Usernames, p \in Passwords :
             authenticate_user(users, users_by_username, u, p)
                 = IF Registrado(u, p) THEN users_by_username[u].n ELSE NoUser)
    /\ [][resp'.op = "POST /auth/login" =>
            \A u \in Usernames, p \in Passwords :
                login(u, p) =>
                    IF Registrado(u, p)
                    THEN /\ resp'.status = 200
                         /\ resp'.val = users_by_username[u].n
                    ELSE /\ resp' = Http("POST /auth/login", 401, MsgLogin, 0)
                         /\ emitidos' = emitidos]_vars

\* a login was turned down while a user is registered: the answer is the one
\* given for a wrong password and for a username nobody has
C13_Witness ==
    /\ resp = Http("POST /auth/login", 401, MsgLogin, 0)
    /\ Registrado("ana", "p")
    /\ "bob" \notin DOMAIN users_by_username
    /\ emitidos = {}

\* ------------------------------------- the endpoints that ask for a token
\* the bodies sent to the two endpoints while tokens run out and the process
\* is started again
AuthProductos ==
    {d \in ProductoCreate :
        /\ d.tipo \in {"generico", "otro"}
        /\ d.stock = 1
        /\ d.meses_garantia = None /\ d.talla = None /\ d.color = None}
AuthItems == {<<>>, <<<<UUID(1), 1>>>>}

AuthCrearUsuario == crear_usuario("cliente", "a@x", "calle")
AuthCrearProducto ==
    \E tok \in TokenInputs, datos \in AuthProductos : crear_producto(tok, datos)
AuthCrearPedido ==
    \E tok \in TokenInputs, c \in UsuarioIds, items \in AuthItems :
        crear_pedido(tok, c, items)

NextProtegido ==
    \/ HttpRegister
    \/ HttpLogin
    \/ AuthCrearUsuario
    \/ AuthCrearProducto
    \/ AuthCrearPedido
    \/ Tick
    \/ Reiniciar

SpecProtegido == Init /\ [][NextProtegido]_vars

\* the token is one verify_token accepts and its subject is a stored user
Autorizado(token) ==
    /\ token # SinToken
    /\ verify_token(token, now) \in DOMAIN users_by_username

\* C14: POST /productos and POST /pedidos change the catalog, the stock or
\* the orders only on a request whose token verify_token accepts and whose
\* subject is a registered user; every other request is answered 401 and
\* leaves catalog, stock and orders as they were.
C14_SoloAutorizado ==
    [][/\ resp'.op = "POST /productos" =>
              \A tok \in TokenInputs, datos \in AuthProductos :
                  (~Autorizado(tok) /\ crear_producto(tok, datos))
                  => /\ resp'.status = 401
                     /\ UNCHANGED <<objs, productos, pedidos>>
       /\ resp'.op = "POST /pedidos" =>
              \A tok \in TokenInputs, c \in UsuarioIds, items \in AuthItems :
                  (~Autorizado(tok) /\ crear_pedido(tok, c, items))
                  => /\ resp'.status = 401
                     /\ UNCHANGED <<objs, productos, pedidos>>
       /\ (resp'.op \in {"POST /productos", "POST /pedidos"}
           /\ <<objs, productos, pedidos>>' # <<objs, productos, pedidos>>)
          => \E tok \in TokenInputs : Autorizado(tok)]_vars

\* a POST /productos was answered 401 after the only token issued had run
\* out, with its subject still registered
C14_Witness ==
    /\ resp = Http("POST /productos", 401, MsgCredenciales, 0)
    /\ emitidos # {}
    /\ \A e \in emitidos : /\ e.token.exp < now
                           /\ e.token.sub \in DOMAIN users_by_username

\* ------------------------------- realizar_pedido, statement by statement
\* line 120-124: the client test, then the empty dict
Llamar(t, cliente_id, productos_cantidades) ==
    /\ hilos[t].pc = "idle"
    /\ Len(pedidos) < MaxPedidos
    /\ IF ~es_cliente(usuarios, cliente_id)
       THEN /\ resp' = Raise("realizar_pedido", "ValueError", MsgCliente)
            /\ UNCHANGED hilos
       ELSE /\ hilos' = [hilos EXCEPT ![t] =
                            [pc |-> "bucle", cliente_id |-> cliente_id,
                             items |-> productos_cantidades, i |-> 1,
                             productos |-> <<>>, leido |-> 0]]
            /\ UNCHANGED resp
    /\ UNCHANGED <<tiendaVars, authVars, now, emitidos>>

\* lines 125-130 for the next item, or lines 134-136 when the items are done
Comprobar(t) ==
    LET h == hilos[t] IN
    /\ h.pc = "bucle"
    /\ IF h.i > Len(h.items)
       THEN /\ pedidos' = Append(pedidos, Pedido(h.cliente_id, h.productos))
            /\ resp' = Ret("realizar_pedido", Len(pedidos) + 1)
            /\ hilos' = [hilos EXCEPT ![t] = Ocioso]
       ELSE LET pid == h.items[h.i][1]
                cantidad == h.items[h.i][2]
            IN  /\ UNCHANGED pedidos
                /\ IF pid \notin DOMAIN productos
                   THEN /\ resp' = Raise("realizar_pedido", "ValueError", MsgNoExiste)
                        /\ hilos' = [hilos EXCEPT ![t] = Ocioso]
                   ELSE IF ~hay_stock(objs[productos[pid]], cantidad)
                   THEN /\ resp' = Raise("realizar_pedido", "ValueError", MsgStock)
                        /\ hilos' = [hilos EXCEPT ![t] = Ocioso]
                   ELSE /\ hilos' = [hilos EXCEPT ![t].pc = "leer"]
                        /\ UNCHANGED resp
    /\ UNCHANGED <<usuarios, objs, productos, authVars, now, emitidos>>

\* line 131, self.stock += cantidad: the load of self.stock
Leer(t) ==
    LET h == hilos[t] IN
    /\ h.pc = "leer"
    /\ hilos' = [hilos EXCEPT ![t].pc = "escribir",
                              ![t].leido = objs[productos[h.items[h.i][1]]].stock]
    /\ UNCHANGED <<tiendaVars, authVars, now, emitidos, resp>>

\* line 131, the store into self.stock; line 132, productos[producto] = cantidad
Escribir(t) ==
    LET h == hilos[t]
        o == productos[h.items[h.i][1]]
        cantidad == h.items[h.i][2]
    IN  /\ h.pc = "escribir"
        /\ objs' = [objs EXCEPT ![o] =
                       actualizar_stock([@ EXCEPT !.stock = h.leido], -cantidad)]
        /\ EnRango(objs')
        /\ hilos' = [hilos EXCEPT ![t].pc = "bucle", ![t].i = h.i + 1,
                                  ![t].productos = Append(h.productos, <<o, cantidad>>)]
        /\ UNCHANGED <<usuarios, productos, pedidos, authVars, now, emitidos, resp>>

\* the orders the concurrent callers place: present products, positive counts
ConcItems ==
    {s \in ItemsInputs :
        /\ Len(s) > 0
        /\ \A j \in 1..Len(s) : s[j][1] # Str(0) /\ s[j][2] > 0}

ConcRegistrar == \E t \in {"cliente", "admin"} : RegistrarUsuario(t, "a@x", "calle")
ConcAgregar == \E s \in StockInputs : AgregarProducto(1, s)
ConcLlamar ==
    \E t \in Hilos, c \in UsuarioIds, items \in ConcItems : Llamar(t, c, items)
ConcComprobar == \E t \in Hilos : Comprobar(t)
ConcLeer == \E t \in Hilos : Leer(t)
ConcEscribir == \E t \in Hilos : Escribir(t)

NextConc ==
    \/ ConcRegistrar
    \/ ConcAgregar
    \/ ConcLlamar
    \/ ConcComprobar
    \/ ConcLeer
    \/ ConcEscribir

SpecConc == Init /\ [][NextConc]_vars

\* C5: whatever the interleaving of the calls, the stock test and the
\* decrement of one call are not split by another call: orders of positive
\* quantities never take a product's stock below 0.
C5_SinSobreventa == \A o \in 1..Len(objs) : objs[o].stock >= 0

\* ------------------------------------------------- the registry of users
\* users the registry holds at most while registrations are followed
MaxRegistros == 2

\* tienda_service.registrar_usuario(tipo, nombre, email, direccion)
UsrRegistrar(tipo, email, direccion) ==
    /\ Cardinality(DOMAIN usuarios) < MaxRegistros
    /\ \E r \in {registrar_usuario(usuarios, tipo, email, direccion)} :
           /\ usuarios' = r.usuarios
           /\ resp' = Resultado("registrar_usuario", r, r.val)
    /\ UNCHANGED <<objs, productos, pedidos, authVars, now, emitidos, hilos>>

\* POST /usuarios
UsrCrear(tipo, email, direccion_postal) ==
    /\ Cardinality(DOMAIN usuarios) < MaxRegistros
    /\ \E r \in {registrar_usuario(usuarios, tipo, email, direccion_postal)} :
           /\ usuarios' = r.usuarios
           /\ resp' = IF r.exc = "ValueError"
                      THEN Http("POST /usuarios", 400, r.msg, 0)
                      ELSE Http("POST /usuarios", 201, "", r.val)
    /\ UNCHANGED <<objs, productos, pedidos, authVars, now, emitidos, hilos>>

\* tienda_service.obtener_usuario(usuario_id)
UsrObtener(usuario_id) ==
    /\ \E r \in {obtener_usuario(usuarios, usuario_id)} :
           resp' = Resultado("obtener_usuario", r, r.val)
    /\ UNCHANGED <<tiendaVars, authVars, now, emitidos, hilos>>

RegistroIds == {UUID(n) : n \in 0..MaxRegistros}

PasoUsrRegistrar ==
    \E t \in TipoInputs, e \in Emails, d \in Direcciones : UsrRegistrar(t, e, d)
PasoUsrCrear ==
    \E t \in TipoInputs, e \in Emails, d \in Direcciones : UsrCrear(t, e, d)
PasoUsrObtener == \E id \in RegistroIds : UsrObtener(id)

NextUsuarios ==
    \/ PasoUsrRegistrar
    \/ PasoUsrCrear
    \/ PasoUsrObtener

SpecUsuarios == Init /\ [][NextUsuarios]_vars

\* the roles as the caller writes them
RolCliente == {"cliente", "Cliente"}
RolAdministrador == {"admin", "administrador"}
SinDireccion == {None, ""}

\* C15: registrar_usuario raises for the role client with no address or an
\* empty one (the address error) and for a role that is neither client nor
\* administrator (the role error), leaving usuarios as it was in both cases;
\* for the role client with a non-empty address it stores a Cliente under a
\* new id, which obtener_usuario then returns.
C15_RegistroValidado ==
    [][resp'.op = "registrar_usuario" =>
          \A t \in TipoInputs, e \in Emails, d \in Direcciones :
              UsrRegistrar(t, e, d) =>
                  /\ (t \in RolCliente /\ d \in SinDireccion)
                     => /\ resp'.exc = "ValueError"
                        /\ resp'.msg = MsgDireccion
                        /\ usuarios' = usuarios
                  /\ t \notin RolCliente \cup RolAdministrador
                     => /\ resp'.exc = "ValueError"
                        /\ resp'.msg = MsgTipo
                        /\ usuarios' = usuarios
                  /\ (t \in RolCliente /\ d \notin SinDireccion)
                     => /\ resp'.exc = None
                        /\ UUID(resp'.val) \notin DOMAIN usuarios
                        /\ usuarios' = Poner(usuarios, UUID(resp'.val),
                                             Cliente(e, d, UUID(resp'.val)))
                        /\ obtener_usuario(usuarios', UUID(resp'.val))
                               = [exc |-> None, msg |-> "", val |-> resp'.val]]_vars

\* a client without an address was turned down while the registry held a user
C15_Witness ==
    /\ resp.op = "registrar_usuario"
    /\ resp.msg = MsgDireccion
    /\ Cardinality(DOMAIN usuarios) = 1

\* C17: whatever registrations were made, no two stored users have the same
\* email.
C17_EmailUnico ==
    \A a \in DOMAIN usuarios, b \in DOMAIN usuarios :
        a # b => usuarios[a].email # usuarios[b].email

\* ------------------------------------------------------------ the catalog
PasoEliminar == \E id \in ProductoIds : EliminarProducto(id)
PasoObtener == \E id \in ProductoIds : ObtenerProducto(id)

NextCatalogo ==
    \/ PasoAgregar
    \/ PasoEliminar
    \/ PasoObtener

SpecCatalogo == Init /\ [][NextCatalogo]_vars

\* C16: eliminar_producto raises "Producto no encontrado." and leaves the
\* catalog as it was when the id is absent; for a present id it deletes that
\* entry and no other, after which obtener_producto(id) raises and a second
\* eliminar_producto(id) raises too.
C16_EliminarExacto ==
    [][resp'.op = "eliminar_producto" =>
          \A id \in ProductoIds :
              EliminarProducto(id) =>
                  IF id \notin DOMAIN productos
                  THEN /\ resp'.exc = "ValueError"
                       /\ resp'.msg = MsgProducto
                       /\ productos' = productos
                  ELSE /\ resp'.exc = None
                       /\ DOMAIN productos' = DOMAIN productos \ {id}
                       /\ \A k \in DOMAIN productos' : productos'[k] = productos[k]
                       /\ obtener_producto(productos', id).exc = "ValueError"
                       /\ obtener_producto(productos', id).msg = MsgProducto
                       /\ eliminar_producto(productos', id)
                              = [exc |-> "ValueError", msg |-> MsgProducto,
                                 productos |-> productos']]_vars

\* one of two products was deleted and the other is still in the catalog
C16_Witness ==
    /\ resp.op = "eliminar_producto"
    /\ resp.exc = None
    /\ Len(objs) = 2
    /\ Cardinality(DOMAIN productos) = 1

====
